---- MODULE Spec2Model ----
(***************************************************************************)
(* geo-add-crawl: the batch orchestration of main.py, the address          *)
(* enrichment fetch_data, the paginator                                    *)
(* ChainbaseCrawlerService._fetch_paginated and the retrying client        *)
(* HttpService.get.                                                        *)
(*                                                                         *)
(* The code is asyncio: one event loop, coroutines that are suspended only *)
(* at an await.  Every action below is the code between two awaits of one  *)
(* coroutine.                                                              *)
(***************************************************************************)
EXTENDS Integers, Sequences, FiniteSets, TLC

\* ------------------------------------------------------------------ bounds
\* Longest credential list (API_KEYS) and longest address file explored.
MaxKeys == 2
MaxLines == 4
\* Pages of a collection on which the provider's data varies (null, an item,
\* an item that lacks a required field); later pages carry one good item.
MaxVarPages == 2

\* ------------------------------------------------------- program constants
MAX_RETRIES == 3
NOT_FOUND == 404
MAX_PAGE == 100

\* ------------------------------------------------------------------ values
KeyNames == <<"k1", "k2", "k3", "k4">>

TOKEN == "/account/tokens"
TRANSACTION == "/account/txs"
EndPoints == {TOKEN, TRANSACTION}

\* --------------------------------------------------------- HttpService.get
\* What one request attempt can meet.  status is the HTTP status of a
\* response that arrived; body says what response.json() does with it.
AttemptOutcomes ==
    { [kind |-> "response", status |-> 200, body |-> "json"],
      [kind |-> "response", status |-> 200, body |-> "wrong_content_type"],
      [kind |-> "response", status |-> 200, body |-> "invalid_json"],
      [kind |-> "response", status |-> 404, body |-> "none"],
      [kind |-> "response", status |-> 500, body |-> "none"],
      [kind |-> "client_error", status |-> 0, body |-> "none"],
      [kind |-> "timeout", status |-> 0, body |-> "none"] }

Success == [kind |-> "response", status |-> 200, body |-> "json"]

\* The exception the body of the try block raises on an outcome:
\* raise_for_status() raises ClientResponseError for a status >= 400,
\* response.json() raises ContentTypeError (a ClientResponseError carrying the
\* response's status) or a JSON decode error (a plain Exception); a connection
\* failure is a ClientError; the session's total timeout is
\* asyncio.TimeoutError, a plain Exception.
RaisedBy(o) ==
    IF o.kind = "response"
    THEN IF o.status >= 400 THEN "ClientResponseError"
         ELSE IF o.body = "wrong_content_type" THEN "ClientResponseError"
         ELSE IF o.body = "invalid_json" THEN "Exception"
         ELSE "none"
    ELSE IF o.kind = "client_error" THEN "ClientError"
    ELSE "Exception"

\* The branch "if attempt < MAX_RETRIES: sleep(2**attempt) else: log" that the
\* three except clauses share.
RetryOrGiveUp(attempt) ==
    IF attempt < MAX_RETRIES
    THEN [next |-> "retry", wait |-> 2 ^ attempt]
    ELSE [next |-> "exhausted", wait |-> 0]

\* Mutants of the 404 branch and of the generic handler (see the claims).
NotFoundRetried(attempt, o) ==
    IF RaisedBy(o) = "none" THEN [next |-> "return", wait |-> 0]
    ELSE RetryOrGiveUp(attempt)

GenericHandlerMissing(attempt, o) ==
    IF RaisedBy(o) = "none" THEN [next |-> "return", wait |-> 0]
    ELSE IF RaisedBy(o) = "ClientResponseError"
    THEN IF o.status = NOT_FOUND THEN [next |-> "break", wait |-> 0]
         ELSE RetryOrGiveUp(attempt)
    ELSE IF RaisedBy(o) = "ClientError" THEN RetryOrGiveUp(attempt)
    ELSE [next |-> "raise", wait |-> 0]

WaitAfterLastAttempt(attempt, o) ==
    IF RaisedBy(o) = "none" THEN [next |-> "return", wait |-> 0]
    ELSE IF RaisedBy(o) = "ClientResponseError" /\ o.status = NOT_FOUND
    THEN [next |-> "break", wait |-> 0]
    ELSE IF attempt < MAX_RETRIES
    THEN [next |-> "retry", wait |-> 2 ^ attempt]
    ELSE [next |-> "exhausted", wait |-> 2 ^ attempt]

\* One iteration of "for attempt in range(MAX_RETRIES + 1)": what the loop
\* does after the attempt met outcome o.
\*   return    : line 96, the JSON value is returned
\*   break     : line 103, a 404 leaves the loop, line 140 returns data (None)
\*   retry     : sleep(wait), then the next iteration
\*   exhausted : the last iteration failed, the loop ends, line 140
HttpGetStep(attempt, o) ==
    IF RaisedBy(o) = "none" THEN [next |-> "return", wait |-> 0]
    ELSE IF RaisedBy(o) = "ClientResponseError"
    THEN IF o.status = NOT_FOUND THEN [next |-> "break", wait |-> 0]
         ELSE RetryOrGiveUp(attempt)
    ELSE IF RaisedBy(o) = "ClientError" THEN RetryOrGiveUp(attempt)
    ELSE RetryOrGiveUp(attempt)

\* ------------------------------------------------- the provider's answers
\* A JSON value as the code looks at it: its type, whether a dict has the
\* fields ChainbaseResponse requires, its code, data and next_page.
NullData == [null |-> TRUE, items |-> <<>>]
NullPage == [null |-> TRUE, page |-> 0]

Json(type, valid, code, data, next_page) ==
    [type |-> type, valid |-> valid, code |-> code, data |-> data,
     next_page |-> next_page]

\* Python's None (also what response.json() gives for a body "null").
None == Json("none", FALSE, 0, NullData, NullPage)
JsonList == Json("list", FALSE, 0, NullData, NullPage)
BadEnvelope == Json("dict", FALSE, 0, NullData, NullPage)
ErrorEnvelope == Json("dict", TRUE, 1, NullData, NullPage)

\* A raw item of a page, with a field the projections drop, and an item that
\* lacks the fields TokenMeta / TransactionMeta require.
GoodItem(endpoint, address, page) ==
    IF endpoint = TOKEN
    THEN [contract_address |-> <<"token", address, page>>, symbol |-> "SYM"]
    ELSE [value |-> <<"value", address, page>>,
          block_timestamp |-> <<"ts", page>>,
          hash |-> <<"hash", address, page>>]

BadItem == [hash |-> "0x0"]

DataChoices(endpoint, address, page) ==
    IF page <= MaxVarPages
    THEN { NullData,
           [null |-> FALSE, items |-> <<GoodItem(endpoint, address, page)>>],
           [null |-> FALSE, items |-> <<BadItem>>] }
    ELSE { [null |-> FALSE, items |-> <<GoodItem(endpoint, address, page)>>] }

\* The provider names a next page on the pages below `limit` only.
NextChoices(page, limit) ==
    IF page < limit THEN {NullPage, [null |-> FALSE, page |-> page + 1]}
    ELSE {NullPage}

\* The JSON bodies the provider may send for one page of a collection.
Responses(endpoint, address, page, limit) ==
    {None, JsonList, BadEnvelope, ErrorEnvelope}
    \cup { Json("dict", TRUE, 0, d, n) :
             d \in DataChoices(endpoint, address, page),
             n \in NextChoices(page, limit) }

\* ----------------------------- ChainbaseCrawlerService._fetch_paginated
\* Mutants of the loop body (see the claims).
PageStepPrepending(results, iter, res) ==
    IF res = None THEN [next |-> "return", results |-> <<>>, error |-> ""]
    ELSE IF res.type # "dict"
    THEN [next |-> "raise", results |-> results, error |-> "ChainbaseAPIError"]
    ELSE IF ~res.valid
    THEN [next |-> "raise", results |-> results, error |-> "ValidationError"]
    ELSE IF res.code # 0
    THEN [next |-> "raise", results |-> results, error |-> "ChainbaseAPIError"]
    ELSE LET acc == (IF res.data.null THEN <<>> ELSE res.data.items) \o results
         IN IF res.next_page.null
            THEN [next |-> "return", results |-> acc, error |-> ""]
            ELSE IF iter < MAX_PAGE
            THEN [next |-> "page", results |-> acc, error |-> ""]
            ELSE [next |-> "return", results |-> acc, error |-> ""]

PageStepKeepingOnAbsent(results, iter, res) ==
    IF res = None THEN [next |-> "return", results |-> results, error |-> ""]
    ELSE IF res.type # "dict"
    THEN [next |-> "raise", results |-> results, error |-> "ChainbaseAPIError"]
    ELSE IF ~res.valid
    THEN [next |-> "raise", results |-> results, error |-> "ValidationError"]
    ELSE IF res.code # 0
    THEN [next |-> "raise", results |-> results, error |-> "ChainbaseAPIError"]
    ELSE LET acc == results \o (IF res.data.null THEN <<>> ELSE res.data.items)
         IN IF res.next_page.null
            THEN [next |-> "return", results |-> acc, error |-> ""]
            ELSE IF iter < MAX_PAGE
            THEN [next |-> "page", results |-> acc, error |-> ""]
            ELSE [next |-> "return", results |-> acc, error |-> ""]

PageStepSkippingErrors(results, iter, res) ==
    IF res = None THEN [next |-> "return", results |-> <<>>, error |-> ""]
    ELSE IF res.type # "dict" \/ res.code # 0
    THEN [next |-> "return", results |-> results, error |-> ""]
    ELSE IF ~res.valid
    THEN [next |-> "raise", results |-> results, error |-> "ValidationError"]
    ELSE LET acc == results \o (IF res.data.null THEN <<>> ELSE res.data.items)
         IN IF res.next_page.null
            THEN [next |-> "return", results |-> acc, error |-> ""]
            ELSE IF iter < MAX_PAGE
            THEN [next |-> "page", results |-> acc, error |-> ""]
            ELSE [next |-> "return", results |-> acc, error |-> ""]

PageStepNoCap(results, iter, res) ==
    IF res = None THEN [next |-> "return", results |-> <<>>, error |-> ""]
    ELSE IF res.type # "dict"
    THEN [next |-> "raise", results |-> results, error |-> "ChainbaseAPIError"]
    ELSE IF ~res.valid
    THEN [next |-> "raise", results |-> results, error |-> "ValidationError"]
    ELSE IF res.code # 0
    THEN [next |-> "raise", results |-> results, error |-> "ChainbaseAPIError"]
    ELSE LET acc == results \o (IF res.data.null THEN <<>> ELSE res.data.items)
         IN IF res.next_page.null
            THEN [next |-> "return", results |-> acc, error |-> ""]
            ELSE [next |-> "page", results |-> acc, error |-> ""]

\* The body of "for _ in range(MAX_PAGE)" after http_client.get returned res
\* in iteration number iter (1 .. MAX_PAGE), and what follows the loop.
\*   return : line 94 (absent: the empty list) or line 119 (results)
\*   raise  : lines 98, 100, 103
\*   page   : params["page"] += 1 and the next iteration
PageStep(results, iter, res) ==
    IF res = None THEN [next |-> "return", results |-> <<>>, error |-> ""]
    ELSE IF res.type # "dict"
    THEN [next |-> "raise", results |-> results, error |-> "ChainbaseAPIError"]
    ELSE IF ~res.valid
    THEN [next |-> "raise", results |-> results, error |-> "ValidationError"]
    ELSE IF res.code # 0
    THEN [next |-> "raise", results |-> results, error |-> "ChainbaseAPIError"]
    ELSE LET acc == results \o (IF res.data.null THEN <<>> ELSE res.data.items)
         IN IF res.next_page.null
            THEN [next |-> "return", results |-> acc, error |-> ""]
            ELSE IF iter < MAX_PAGE
            THEN [next |-> "page", results |-> acc, error |-> ""]
            ELSE [next |-> "return", results |-> acc, error |-> ""]

\* The frame of one _fetch_paginated call.
\*   pc        send     : about to call http_client.get
\*             inflight : the request is on the wire (await session.get)
\*             backoff  : asyncio.sleep(2 ** attempt) before the next attempt
\*             delay    : http_client.get returned res, asyncio.sleep(delay)
\*             returned / raised
\*   iter      the iteration of "for _ in range(MAX_PAGE)", from 1
\*   page      params["page"]
\*   attempt   the loop variable of HttpService.get
\*   requested the value of params["page"] at each call of http_client.get
\*   answers   the values the calls of http_client.get returned, in order
NewFetch(api_key, endpoint, address) ==
    [pc |-> "send", api_key |-> api_key, endpoint |-> endpoint,
     address |-> address, iter |-> 1, page |-> 1, attempt |-> 0,
     res |-> None, results |-> <<>>, requested |-> <<>>, answers |-> <<>>,
     error |-> "", ret |-> <<>>]

\* session.get on a closed session raises RuntimeError inside the try block.
SessionClosed == [kind |-> "session_closed", status |-> 0, body |-> "none"]

\* http_client.get after an attempt met outcome o (js is the body of a
\* successful one).
FetchAfterAttempt(f, o, js) ==
    LET st == HttpGetStep(f.attempt, o)
    IN IF st.next = "retry"
       THEN [f EXCEPT !.pc = "backoff", !.attempt = @ + 1]
       ELSE IF st.next = "raise"
       THEN [f EXCEPT !.pc = "raised", !.error = "Exception"]
       ELSE LET res == IF st.next = "return" THEN js ELSE None
            IN [f EXCEPT !.pc = "delay", !.attempt = 0, !.res = res,
                         !.answers = Append(@, res)]

\* Lines 81-93 of HttpService.get as called from line 86.
FetchSend(f, sess) ==
    IF f.attempt = 0 /\ sess = "unset"
    THEN [f EXCEPT !.pc = "raised", !.error = "RuntimeError",
                   !.requested = Append(@, f.page)]
    ELSE LET g == IF f.attempt = 0
                  THEN [f EXCEPT !.requested = Append(@, f.page)] ELSE f
         IN IF sess = "closed" THEN FetchAfterAttempt(g, SessionClosed, None)
            ELSE [g EXCEPT !.pc = "inflight"]

\* Lines 92-119 once the inter-page sleep is over.
FetchAfterDelay(f) ==
    LET ps == PageStep(f.results, f.iter, f.res)
    IN IF ps.next = "return"
       THEN [f EXCEPT !.pc = "returned", !.ret = ps.results,
                      \* "return []" of line 94 leaves the local list alone
                      !.results = IF f.res = None THEN @ ELSE ps.results]
       ELSE IF ps.next = "raise"
       THEN [f EXCEPT !.pc = "raised", !.error = ps.error]
       ELSE [f EXCEPT !.pc = "send", !.results = ps.results,
                      !.page = @ + 1, !.iter = @ + 1]

\* Lines 92-119 and, when the loop goes on, the next call of http_client.get
\* up to its first await.
FetchResume(f, sess) ==
    LET g == FetchAfterDelay(f)
    IN IF g.pc = "send" THEN FetchSend(g, sess) ELSE g

\* -------------------------------------------------------------- fetch_data
\* The methods ChainbaseCrawlerService defines.
ServiceMethods == {"_fetch_paginated", "get_transactions", "get_tokens"}

\* TokenMeta(**token) / TransactionMeta(**tx): pydantic raises ValidationError
\* for an item without the required fields and ignores the other fields.
RequiredFields(endpoint) ==
    IF endpoint = TOKEN THEN {"contract_address"} ELSE {"value", "block_timestamp"}

ItemsValid(items, endpoint) ==
    \A k \in 1..Len(items) : RequiredFields(endpoint) \subseteq DOMAIN items[k]

\* token_list, line 43.
TokenList(items) == [k \in 1..Len(items) |-> items[k].contract_address]

\* tx_list, lines 50-53.
TxList(items) ==
    [k \in 1..Len(items) |->
        [value |-> items[k].value, block_timestamp |-> items[k].block_timestamp]]

\* The record of line 58.
FullRecord(address, token_list, tx_list, balance) ==
    [address |-> address, tokens |-> token_list, transactions |-> tx_list,
     balance |-> balance]

\* The record of line 61 with what a buggy handler would keep (a mutant).
DegradedKeepingLists(address, token_list, tx_list) ==
    [address |-> address, tokens |-> token_list, transactions |-> tx_list]

\* The record of line 61.
Degraded(address, token_list, tx_list) ==
    [address |-> address, tokens |-> <<>>, transactions |-> <<>>]

\* chainbase_crawler_client.get_balance(...), line 55: the attribute lookup
\* on an object whose class does not define the method raises AttributeError.
GetBalance(address) ==
    IF "get_balance" \in ServiceMethods
    THEN [raised |-> FALSE, error |-> "", value |-> <<"balance", address>>]
    ELSE [raised |-> TRUE, error |-> "AttributeError", value |-> <<>>]

NoRecord == [pending |-> TRUE]

\* The frame of one fetch_data coroutine.
\*   sub : the sub-fetch it is in ("tokens", "transactions") or "done"
\*   pf  : the frame of the _fetch_paginated call it awaits
\*   ret : its return value; error : the exception line 59 caught
NewTask(api_key, address) ==
    [sub |-> "tokens", api_key |-> api_key, address |-> address,
     pf |-> NewFetch(api_key, TOKEN, address),
     token_list |-> <<>>, tx_list |-> <<>>, ret |-> NoRecord, error |-> ""]

\* fetch_data returns: the frame of the paginated fetch is gone.
Finish(t, record, error) ==
    [t EXCEPT !.sub = "done", !.ret = record, !.error = error,
              !.pf = [NewFetch(t.api_key, t.pf.endpoint, t.address)
                        EXCEPT !.pc = "gone"]]

\* fetch_data from the moment its paginated fetch reached frame f, up to the
\* next await: lines 40-61.
FetchDataStep(t, f, sess) ==
    IF f.pc = "raised"
    THEN Finish(t, Degraded(t.address, t.token_list, t.tx_list), f.error)
    ELSE IF f.pc # "returned" THEN [t EXCEPT !.pf = f]
    ELSE IF ~ItemsValid(f.ret, f.endpoint)
    THEN Finish(t, Degraded(t.address, t.token_list, t.tx_list), "ValidationError")
    ELSE IF t.sub = "tokens"
    THEN LET u == [t EXCEPT !.token_list = TokenList(f.ret),
                            !.sub = "transactions"]
             g == FetchSend(NewFetch(t.api_key, TRANSACTION, t.address), sess)
         IN IF g.pc = "raised"
            THEN Finish(u, Degraded(u.address, u.token_list, u.tx_list), g.error)
            ELSE [u EXCEPT !.pf = g]
    ELSE LET u == [t EXCEPT !.tx_list = TxList(f.ret)]
             b == GetBalance(t.address)
         IN IF b.raised
            THEN Finish(u, Degraded(u.address, u.token_list, u.tx_list), b.error)
            ELSE Finish(u, FullRecord(u.address, u.token_list, u.tx_list, b.value), "")

\* ----------------------------------------------------------- process_batch
\* API_KEYS = os.getenv("API_KEYS", "").split(sep=","): the value of the
\* variable is a sequence of characters, "," among them.
RECURSIVE Split(_)
Split(str) ==
    IF \A k \in 1..Len(str) : str[k] # ","
    THEN <<str>>
    ELSE LET c == CHOOSE k \in 1..Len(str) :
                     str[k] = "," /\ \A j \in 1..(k - 1) : str[j] # ","
         IN <<SubSeq(str, 1, c - 1)>> \o Split(SubSeq(str, c + 1, Len(str)))

RECURSIVE Join(_)
Join(keys) ==
    IF Len(keys) = 0 THEN <<>>
    ELSE IF Len(keys) = 1 THEN keys[1]
    ELSE keys[1] \o <<",">> \o Join(Tail(keys))

\* The values of the environment variable explored: unset or empty, n
\* different keys, n times the same key (n up to MaxKeys).
EnvValues ==
    {<<>>}
    \cup { Join([i \in 1..n |-> <<KeyNames[i]>>]) : n \in 1..MaxKeys }
    \cup { Join([i \in 1..n |-> <<KeyNames[1]>>]) : n \in 2..MaxKeys }

\* Mutants of the guard, of the key of a position and of the gathering.
NeverExhausted(batch, keys) == FALSE
FirstKeyForAll(keys, i) == keys[1]
GatherByCompletion(ts, order) == [k \in 1..Len(ts) |-> ts[order[k]].ret]
SomeDone(ts) == Len(ts) = 0 \/ \E i \in 1..Len(ts) : ts[i].sub = "done"

\* Line 69.
CredentialsExhausted(batch, keys) == Len(batch) > Len(keys)

\* Line 74.
KeyFor(keys, i) == keys[i]

\* asyncio.gather(*tasks): the results in the order of the awaitables.
Gather(ts, order) == [k \in 1..Len(ts) |-> ts[k].ret]

\* gather returns when every awaitable has finished.
AllDone(ts) == \A i \in 1..Len(ts) : ts[i].sub = "done"

\* addresses of line 97: the lines stripped, the blank ones dropped.
ReadAddresses(lines) == SelectSeq(lines, LAMBDA l : l # "")

\* The files explored: the first lines of this one.
FileLines == <<"0xA", "", "0xB", "0xA", "0xC", "0xB">>
FileContents == { SubSeq(FileLines, 1, n) : n \in 0..MaxLines }
AddressLists == { ReadAddresses(c) : c \in FileContents }

\* Slices one address longer than the credential list (a mutant).
BatchAddressesOversize(addrs, size) ==
    [k \in 1..((Len(addrs) + size) \div (size + 1)) |->
        SubSeq(addrs, (k - 1) * (size + 1) + 1,
               IF k * (size + 1) < Len(addrs) THEN k * (size + 1) ELSE Len(addrs))]

\* batch_addresses of lines 99-101.
BatchAddresses(addrs, size) ==
    [k \in 1..((Len(addrs) + size - 1) \div size) |->
        SubSeq(addrs, (k - 1) * size + 1,
               IF k * size < Len(addrs) THEN k * size ELSE Len(addrs))]

\* ------------------------------------------------- persistence of the results
\* What os.getenv("MONGO_URI", "") of line 111 may give: nothing, a usable
\* connection string, a string the driver rejects.
MongoUris == {"", "mongodb://db", "mongodb://"}

\* MongoService(uri=..., db_name=...), line 117 and mongo_service.py lines
\* 15-21: AsyncIOMotorClient parses the connection string when constructed
\* and raises on one without a host; it does not connect.
MongoService(uri) ==
    IF uri = "mongodb://"
    THEN [raised |-> TRUE, error |-> "ConfigurationError"]
    ELSE [raised |-> FALSE, error |-> ""]

\* How the bulk write of lines 124-126 may end.
InsertOutcomes == {"inserted", "BulkWriteError", "ServerSelectionTimeoutError"}

ObjectId == "ObjectId"

\* A document once the driver has seen it: insert_many gives every document
\* that has no "_id" a fresh ObjectId, in place, before it sends anything.
WithId(doc) ==
    IF "_id" \in DOMAIN doc
    THEN doc
    ELSE [f \in DOMAIN doc \cup {"_id"} |-> IF f = "_id" THEN ObjectId ELSE doc[f]]

\* address_collection.insert_many(documents=final_results, ordered=False),
\* lines 124-126: the list handed over is main's own final_results.
InsertMany(documents, outcome) ==
    [documents |-> [k \in 1..Len(documents) |-> WithId(documents[k])],
     raised |-> outcome # "inserted",
     error |-> IF outcome = "inserted" THEN "" ELSE outcome]

\* Whether json can encode a record: strings and lists it can, an ObjectId it
\* cannot (TypeError).
Serializable(doc) == "_id" \in DOMAIN doc => doc["_id"] # ObjectId

\* The first record json.dump cannot encode, Len(obj) + 1 when there is none.
FirstUnserializable(obj) ==
    LET bad == { k \in 1..Len(obj) : ~Serializable(obj[k]) }
    IN IF bad = {} THEN Len(obj) + 1
       ELSE CHOOSE k \in bad : \A j \in bad : k <= j

NoFile == [exists |-> FALSE, records |-> <<>>, complete |-> FALSE]

\* Lines 137-142: open(backup_file, "w") and json.dump(final_results, f).
\* records are the records written whole; complete says the array was closed.
\* json.dump writes as it goes, so what precedes the value it cannot encode
\* stays in the file.
WriteBackup(obj, opened) ==
    IF ~opened
    THEN [file |-> NoFile, error |-> "OSError"]
    ELSE LET k == FirstUnserializable(obj)
         IN IF k <= Len(obj)
            THEN [file |-> [exists |-> TRUE, records |-> SubSeq(obj, 1, k - 1),
                            complete |-> FALSE],
                  error |-> "TypeError"]
            ELSE [file |-> [exists |-> TRUE, records |-> obj, complete |-> TRUE],
                  error |-> ""]

\* ------------------------------------------------------------------- state
VARIABLES
    API_KEYS,         \* main.py line 30
    session,          \* HttpService.session: "unset", "open" or "closed"
    sessions_created, \* the aiohttp.ClientSession objects constructed so far
    provider_pages,   \* pages on which the provider may name a next page
    mpc,              \* where main is
    addresses,        \* main: addresses
    batch_addresses,  \* main: batch_addresses
    batch_no,         \* main: the batches handed to process_batch so far
    final_results,    \* main: final_results
    MONGO_URI,        \* main: MONGO_URI, "unread" before line 111
    mongo_client,     \* main: mongo_client: "none", "constructed" or "raised"
    inserts,          \* the insert_many calls: the documents handed over, the end
    backup_file,      \* the backup file of line 136 as it is on disk
    log,              \* what main logged from line 111 on, in order
    pb,               \* the process_batch call: state, addresses, error, result
    tasks,            \* process_batch: the fetch_data coroutines, by position
    completed,        \* the positions of the finished coroutines, in order
    hget,             \* one HttpService.get call made by a client on its own
    pfetch            \* one _fetch_paginated call made by a client on its own

vars == <<API_KEYS, session, sessions_created, provider_pages, mpc, addresses, batch_addresses,
          batch_no, final_results, MONGO_URI, mongo_client, inserts,
          backup_file, log, pb, tasks, completed, hget, pfetch>>

persistVars == <<MONGO_URI, mongo_client, inserts, backup_file, log>>
mainVars == <<mpc, addresses, batch_addresses, batch_no, final_results,
              persistVars>>
batchVars == <<pb, tasks, completed>>

\* Before line 111 is reached.
NothingPersisted ==
    /\ MONGO_URI = "unread"
    /\ mongo_client = "none"
    /\ inserts = <<>>
    /\ backup_file = NoFile
    /\ log = <<>>

IdleBatch == [state |-> "idle", addresses |-> <<>>, error |-> "", result |-> <<>>]

IdleGet ==
    [state |-> "idle", attempt |-> 0, sent |-> 0, waits |-> <<>>,
     outcomes |-> <<>>, ret |-> None, error |-> ""]

IdleFetch == [NewFetch(<<>>, TOKEN, "") EXCEPT !.pc = "idle"]

\* ------------------------------------------------ HttpService.start / close
\* Lines 42-45: the sessions a call of start() constructs.
NewSessions(sess) == IF sess = "unset" THEN 1 ELSE 0

\* Lines 42-48.
StartSession(sess) == IF sess = "unset" THEN "open" ELSE sess

\* A close() that forgets the session it closed (a mutant).
CloseSessionResetting(sess) == "unset"

\* Lines 51-52.
CloseSession(sess) == IF sess # "unset" THEN "closed" ELSE sess

\* ---------------------------------------- process_batch and its coroutines
\* process_batch(addrs) up to "await asyncio.gather": lines 69-83.
ProcessBatchEnter(addrs) ==
    /\ completed' = <<>>
    /\ IF CredentialsExhausted(addrs, API_KEYS)
       THEN /\ pb' = [state |-> "raised", addresses |-> addrs,
                      error |-> "ValueError", result |-> <<>>]
            /\ tasks' = <<>>
       ELSE IF \E i \in 1..Len(addrs) : i > Len(API_KEYS)
       THEN \* API_KEYS[i] of line 74 raises before gather is reached
            /\ pb' = [state |-> "raised", addresses |-> addrs,
                      error |-> "IndexError", result |-> <<>>]
            /\ tasks' = <<>>
       ELSE /\ pb' = [state |-> "gathering", addresses |-> addrs,
                      error |-> "", result |-> <<>>]
            /\ tasks' = [i \in 1..Len(addrs) |->
                            NewTask(KeyFor(API_KEYS, i), addrs[i])]

\* A coroutine moved to frame t: the positions finished are noted in order.
TaskMoves(i, t) ==
    /\ tasks' = [tasks EXCEPT ![i] = t]
    /\ completed' = IF t.sub = "done" THEN Append(completed, i) ELSE completed
    /\ UNCHANGED <<API_KEYS, session, sessions_created, provider_pages, mainVars, pb, hget, pfetch>>

\* fetch_data starts, or wakes from the backoff sleep, and issues a request.
TaskSend(i) ==
    /\ i \in 1..Len(tasks)
    /\ tasks[i].sub # "done"
    /\ tasks[i].pf.pc \in {"send", "backoff"}
    /\ TaskMoves(i, FetchDataStep(tasks[i], FetchSend(tasks[i].pf, session), session))

\* The attempt in flight ends with a failure.
TaskAttemptFails(i) ==
    /\ i \in 1..Len(tasks)
    /\ tasks[i].pf.pc = "inflight"
    /\ \E o \in AttemptOutcomes \ {Success} :
          TaskMoves(i, FetchDataStep(tasks[i],
                                     FetchAfterAttempt(tasks[i].pf, o, None),
                                     session))

\* The attempt in flight ends with a JSON body.
TaskAttemptSucceeds(i) ==
    /\ i \in 1..Len(tasks)
    /\ tasks[i].pf.pc = "inflight"
    /\ \E js \in Responses(tasks[i].pf.endpoint, tasks[i].address,
                           tasks[i].pf.page, provider_pages) :
          TaskMoves(i, FetchDataStep(tasks[i],
                                     FetchAfterAttempt(tasks[i].pf, Success, js),
                                     session))

\* The inter-page sleep of line 91 ends.
TaskAfterDelay(i) ==
    /\ i \in 1..Len(tasks)
    /\ tasks[i].pf.pc = "delay"
    /\ TaskMoves(i, FetchDataStep(tasks[i], FetchResume(tasks[i].pf, session), session))

\* asyncio.gather returns and so does process_batch: lines 83-84.
GatherDone ==
    /\ pb.state = "gathering"
    /\ AllDone(tasks)
    /\ pb' = [pb EXCEPT !.state = "returned", !.result = Gather(tasks, completed)]
    /\ UNCHANGED <<API_KEYS, session, sessions_created, provider_pages, mainVars, tasks, completed,
                   hget, pfetch>>

\* -------------------------------------------------------------------- main
\* Lines 88-102.
MainStart ==
    /\ mpc = "start"
    /\ session' = StartSession(session)
    /\ sessions_created' = sessions_created + NewSessions(session)
    /\ \E lines \in FileContents :
          /\ addresses' = ReadAddresses(lines)
          /\ batch_addresses' = BatchAddresses(addresses', Len(API_KEYS))
    /\ final_results' = <<>>
    /\ batch_no' = 0
    /\ mpc' = "loop"
    /\ UNCHANGED <<API_KEYS, provider_pages, persistVars, batchVars, hget, pfetch>>

\* A loop that stops after the first batch (a mutant).
MoreBatchesFirstOnly(done, batches) == done < 1 /\ done < Len(batches)

\* "for batch in batch_addresses", line 103: whether a batch is left.
MoreBatches(done, batches) == done < Len(batches)

\* Line 103 and the call of line 104; after the last batch, line 111.
MainNextBatch ==
    /\ mpc = "loop"
    /\ IF MoreBatches(batch_no, batch_addresses)
       THEN /\ ProcessBatchEnter(batch_addresses[batch_no + 1])
            /\ batch_no' = batch_no + 1
            /\ mpc' = IF pb'.state = "raised" THEN "crashed" ELSE "await_batch"
       ELSE /\ mpc' = "collected"
            /\ UNCHANGED <<batchVars, batch_no>>
    /\ UNCHANGED <<API_KEYS, session, sessions_created, provider_pages, addresses, batch_addresses,
                   final_results, persistVars, hget, pfetch>>

\* Line 109.
MainExtend ==
    /\ mpc = "await_batch"
    /\ pb.state = "returned"
    /\ final_results' = final_results \o pb.result
    /\ mpc' = "loop"
    /\ pb' = IdleBatch
    /\ tasks' = <<>>
    /\ UNCHANGED <<API_KEYS, session, sessions_created, provider_pages, addresses, batch_addresses,
                   batch_no, persistVars, completed, hget, pfetch>>

\* "if not MONGO_URI:" never taken (a mutant).
AbsentNever(uri) == FALSE

\* "if not MONGO_URI:", line 112: the empty string is false.
Absent(uri) == uri = ""

\* "if final_results:" taken for true whatever the list (a mutant).
HasResultsAlways(results) == TRUE

\* "if final_results:", line 119: a list is true when it is not empty.
HasResults(results) == results # <<>>

\* Lines 111-126, up to the await of insert_many; with nothing to insert,
\* lines 130-131 and on to line 144.
\*   returned : the return of line 114
\*   crashed  : MongoService(...) of line 117, outside the try, raised
MainPersist ==
    /\ mpc = "collected"
    /\ \E uri \in MongoUris :
          /\ MONGO_URI' = uri
          /\ IF Absent(uri)
             THEN /\ log' = Append(log, "MONGO_URI is not set")
                  /\ mpc' = "returned"
                  /\ UNCHANGED <<mongo_client, inserts>>
             ELSE IF MongoService(uri).raised
             THEN /\ mongo_client' = "raised"
                  /\ mpc' = "crashed"
                  /\ UNCHANGED <<inserts, log>>
             ELSE IF HasResults(final_results)
             THEN /\ mongo_client' = "constructed"
                  /\ inserts' = Append(inserts, [documents |-> final_results,
                                                 end |-> "pending"])
                  /\ log' = Append(log, "Starting to insert documents")
                  /\ mpc' = "inserting"
             ELSE /\ mongo_client' = "constructed"
                  /\ log' = Append(log, "No results to insert")
                  /\ mpc' = "closing"
                  /\ UNCHANGED inserts
    /\ UNCHANGED <<API_KEYS, session, sessions_created, provider_pages, addresses, batch_addresses,
                   batch_no, final_results, backup_file, batchVars, hget, pfetch>>

\* insert_many ends: lines 127-129, or the handler of lines 132-142.
\* opened says whether open(backup_file, "w") succeeds.
MainInsertEnds ==
    /\ mpc = "inserting"
    /\ \E outcome \in InsertOutcomes, opened \in BOOLEAN :
          LET r == InsertMany(final_results, outcome)
              w == WriteBackup(r.documents, opened)
          IN /\ final_results' = r.documents
             /\ inserts' = [inserts EXCEPT ![Len(inserts)].end = outcome]
             /\ IF r.raised
                THEN /\ backup_file' = w.file
                     /\ log' = log \o <<"Error inserting documents",
                                        IF w.error = ""
                                        THEN "Saved backup results"
                                        ELSE "Failed to write backup JSON">>
                ELSE /\ backup_file' = backup_file
                     /\ log' = Append(log, "Inserted documents")
    /\ mpc' = "closing"
    /\ UNCHANGED <<API_KEYS, session, sessions_created, provider_pages, addresses, batch_addresses,
                   batch_no, MONGO_URI, mongo_client, batchVars, hget, pfetch>>

\* Lines 144-145.
MainClose ==
    /\ mpc = "closing"
    /\ session' = CloseSession(session)
    /\ UNCHANGED sessions_created
    /\ log' = Append(log, "HTTP client closed")
    /\ mpc' = "done"
    /\ UNCHANGED <<API_KEYS, provider_pages, addresses, batch_addresses, batch_no,
                   final_results, MONGO_URI, mongo_client, inserts, backup_file,
                   batchVars, hget, pfetch>>

TaskStep ==
    \E i \in 1..MaxKeys :
        \/ TaskSend(i)
        \/ TaskAttemptFails(i)
        \/ TaskAttemptSucceeds(i)
        \/ TaskAfterDelay(i)

\* A run of main.  The provider's collections have one page each here; the
\* paginator is explored on its own below.
Init ==
    /\ API_KEYS \in { Split(e) : e \in EnvValues }
    /\ session = "unset"
    /\ sessions_created = 0
    /\ provider_pages = 1
    /\ mpc = "start"
    /\ addresses = <<>>
    /\ batch_addresses = <<>>
    /\ batch_no = 0
    /\ final_results = <<>>
    /\ NothingPersisted
    /\ pb = IdleBatch
    /\ tasks = <<>>
    /\ completed = <<>>
    /\ hget = IdleGet
    /\ pfetch = IdleFetch

Next ==
    \/ MainStart
    \/ MainNextBatch
    \/ MainExtend
    \/ MainPersist
    \/ MainInsertEnds
    \/ MainClose
    \/ GatherDone
    \/ TaskStep

Spec == Init /\ [][Next]_vars

\* ----------------------------------------- HttpService.get called directly
\* The call record of one HttpService.get call.
\*   attempt  : the loop variable;  sent : the requests put on the wire
\*   waits    : the sleeps taken, in order;  outcomes : what each attempt met
\*   ret      : the value returned;  error : the exception raised
GetAfterAttempt(h, o, js) ==
    LET st == HttpGetStep(h.attempt, o)
        g == [h EXCEPT !.outcomes = Append(@, o),
                       !.waits = IF st.wait > 0 THEN Append(@, st.wait) ELSE @]
    IN IF st.next = "retry"
       THEN [g EXCEPT !.state = "backoff", !.attempt = @ + 1]
       ELSE IF st.next = "raise"
       THEN [g EXCEPT !.state = "raised", !.error = "Exception"]
       ELSE [g EXCEPT !.state = "returned",
                      !.ret = IF st.next = "return" THEN js ELSE None]

\* Lines 89-93: session.get of an attempt.
GetAttempt(h, sess) ==
    IF sess = "closed" THEN GetAfterAttempt(h, SessionClosed, None)
    ELSE [h EXCEPT !.state = "inflight", !.sent = @ + 1]

HttpStart ==
    /\ session' = StartSession(session)
    /\ sessions_created' = sessions_created + NewSessions(session)
    /\ UNCHANGED <<API_KEYS, provider_pages, mainVars, batchVars, hget, pfetch>>

HttpClose ==
    /\ session' = CloseSession(session)
    /\ UNCHANGED sessions_created
    /\ UNCHANGED <<API_KEYS, provider_pages, mainVars, batchVars, hget, pfetch>>

\* "if not self.session:" never taken (a mutant).
NotStartedNever(sess) == FALSE

\* "if not self.session:", line 81: the session start() has not yet created.
NotStarted(sess) == sess = "unset"

\* Lines 75-93.
GetCall ==
    /\ hget.state \in {"idle", "returned", "raised"}
    /\ hget' = IF NotStarted(session)
               THEN [IdleGet EXCEPT !.state = "raised", !.error = "RuntimeError"]
               ELSE GetAttempt([IdleGet EXCEPT !.state = "running"], session)
    /\ UNCHANGED <<API_KEYS, session, sessions_created, provider_pages, mainVars, batchVars, pfetch>>

\* The backoff sleep ends: the next iteration of the loop.
GetWake ==
    /\ hget.state = "backoff"
    /\ hget' = GetAttempt(hget, session)
    /\ UNCHANGED <<API_KEYS, session, sessions_created, provider_pages, mainVars, batchVars, pfetch>>

\* The attempt in flight ends: lines 94-138.
GetAttemptEnds ==
    /\ hget.state = "inflight"
    /\ \E o \in AttemptOutcomes :
          \E js \in IF o = Success THEN Responses(TOKEN, "0xA", 1, 1) ELSE {None} :
              hget' = GetAfterAttempt(hget, o, js)
    /\ UNCHANGED <<API_KEYS, session, sessions_created, provider_pages, mainVars, batchVars, pfetch>>

InitGet ==
    /\ API_KEYS = Split(<<>>)
    /\ session = "unset"
    /\ sessions_created = 0
    /\ provider_pages = 1
    /\ mpc = "external"
    /\ addresses = <<>>
    /\ batch_addresses = <<>>
    /\ batch_no = 0
    /\ final_results = <<>>
    /\ NothingPersisted
    /\ pb = IdleBatch
    /\ tasks = <<>>
    /\ completed = <<>>
    /\ hget = IdleGet
    /\ pfetch = IdleFetch

NextGet == HttpStart \/ HttpClose \/ GetCall \/ GetWake \/ GetAttemptEnds

SpecGet == InitGet /\ [][NextGet]_vars

\* ------------------------------------------ _fetch_paginated called directly
PageCall ==
    /\ pfetch.pc \in {"idle", "returned", "raised"}
    /\ \E endpoint \in EndPoints :
          pfetch' = FetchSend(NewFetch(API_KEYS[1], endpoint, "0xA"), session)
    /\ UNCHANGED <<API_KEYS, session, sessions_created, provider_pages, mainVars, batchVars, hget>>

PageWake ==
    /\ pfetch.pc = "backoff"
    /\ pfetch' = FetchSend(pfetch, session)
    /\ UNCHANGED <<API_KEYS, session, sessions_created, provider_pages, mainVars, batchVars, hget>>

PageAttemptFails ==
    /\ pfetch.pc = "inflight"
    /\ \E o \in AttemptOutcomes \ {Success} :
          pfetch' = FetchAfterAttempt(pfetch, o, None)
    /\ UNCHANGED <<API_KEYS, session, sessions_created, provider_pages, mainVars, batchVars, hget>>

PageAttemptSucceeds ==
    /\ pfetch.pc = "inflight"
    /\ \E js \in Responses(pfetch.endpoint, pfetch.address, pfetch.page,
                           provider_pages) :
          pfetch' = FetchAfterAttempt(pfetch, Success, js)
    /\ UNCHANGED <<API_KEYS, session, sessions_created, provider_pages, mainVars, batchVars, hget>>

PageAfterDelay ==
    /\ pfetch.pc = "delay"
    /\ pfetch' = FetchResume(pfetch, session)
    /\ UNCHANGED <<API_KEYS, session, sessions_created, provider_pages, mainVars, batchVars, hget>>

\* The provider's collection has one page, a few pages, or more pages than
\* the paginator will ever ask for.
InitPage ==
    /\ API_KEYS = Split(<<KeyNames[1]>>)
    /\ session \in {"unset", "open", "closed"}
    /\ sessions_created = IF session = "unset" THEN 0 ELSE 1
    /\ provider_pages \in {1, MaxVarPages + 1, MAX_PAGE + 1}
    /\ mpc = "external"
    /\ addresses = <<>>
    /\ batch_addresses = <<>>
    /\ batch_no = 0
    /\ final_results = <<>>
    /\ NothingPersisted
    /\ pb = IdleBatch
    /\ tasks = <<>>
    /\ completed = <<>>
    /\ hget = IdleGet
    /\ pfetch = IdleFetch

NextPage ==
    PageCall \/ PageWake \/ PageAttemptFails \/ PageAttemptSucceeds \/ PageAfterDelay

SpecPage == InitPage /\ [][NextPage]_vars

\* ------------------------------------------- process_batch called directly
BatchCall ==
    /\ mpc = "external"
    /\ pb.state \in {"idle", "returned", "raised"}
    /\ \E addrs \in AddressLists : ProcessBatchEnter(addrs)
    /\ UNCHANGED <<API_KEYS, session, sessions_created, provider_pages, mainVars, hget, pfetch>>

InitBatch ==
    /\ API_KEYS \in { Split(e) : e \in EnvValues }
    /\ session = "open"
    /\ sessions_created = 1
    /\ provider_pages = 1
    /\ mpc = "external"
    /\ addresses = <<>>
    /\ batch_addresses = <<>>
    /\ batch_no = 0
    /\ final_results = <<>>
    /\ NothingPersisted
    /\ pb = IdleBatch
    /\ tasks = <<>>
    /\ completed = <<>>
    /\ hget = IdleGet
    /\ pfetch = IdleFetch

NextBatch == BatchCall \/ GatherDone \/ TaskStep

SpecBatch == InitBatch /\ [][NextBatch]_vars

\* ------------------------------------------------------------------ claims
Range(seq) == { seq[k] : k \in 1..Len(seq) }

\* The positions whose coroutine has a request on the wire.
InFlight == { i \in 1..Len(tasks) : tasks[i].pf.pc = "inflight" }

\* C1: at the end of the batch loop of main, final_results has exactly one
\* record per input address and the record at position i carries the address
\* at position i of the input, whatever the order in which the coroutines of
\* a batch finished; the list process_batch returns is positional too.
C1_OneRecordPerAddressInOrder ==
    /\ pb.state = "returned" =>
          /\ Len(pb.result) = Len(pb.addresses)
          /\ \A k \in 1..Len(pb.result) :
                /\ "address" \in DOMAIN pb.result[k]
                /\ pb.result[k].address = pb.addresses[k]
    /\ mpc = "collected" =>
          /\ Len(final_results) = Len(addresses)
          /\ \A k \in 1..Len(final_results) :
                /\ "address" \in DOMAIN final_results[k]
                /\ final_results[k].address = addresses[k]

\* C1 witness: the loop ended on a batch of two different addresses whose
\* second coroutine finished first.
C1_Witness ==
    /\ mpc = "collected"
    /\ Len(addresses) = 2
    /\ addresses[1] # addresses[2]
    /\ completed = <<2, 1>>
    /\ Len(final_results) = 2

\* The exceptions a request to the provider can end a sub-fetch with.
FetchErrors == {"ChainbaseAPIError", "ValidationError", "RuntimeError", "Exception"}

\* C2: an enrichment in which no fetch from the provider failed returns a
\* record with a balance key, the address, the token contract addresses and
\* the {value, block_timestamp} projections of the transactions.
C2_FullRecordWhenFetchesSucceed ==
    \A i \in 1..Len(tasks) :
        (tasks[i].sub = "done" /\ tasks[i].error \notin FetchErrors) =>
            /\ "balance" \in DOMAIN tasks[i].ret
            /\ tasks[i].ret.address = tasks[i].address
            /\ tasks[i].ret.tokens = tasks[i].token_list
            /\ tasks[i].ret.transactions = tasks[i].tx_list

\* C3: when a sub-fetch of an enrichment raised, fetch_data returns exactly
\* {address, tokens: [], transactions: []}: no balance key and nothing kept of
\* the sub-fetches that had succeeded; process_batch and main see no exception.
C3_DegradedRecordOnAnyError ==
    /\ \A i \in 1..Len(tasks) :
          (tasks[i].sub = "done" /\ tasks[i].error # "") =>
              tasks[i].ret = [address |-> tasks[i].address, tokens |-> <<>>,
                              transactions |-> <<>>]
    /\ pb.state # "raised"
    /\ mpc = "crashed" => mongo_client = "raised"

\* C3 witness: the token fetch had returned a token, then the transaction
\* fetch raised ProviderError.
C3_Witness ==
    \E i \in 1..Len(tasks) :
        /\ tasks[i].sub = "done"
        /\ tasks[i].error = "ChainbaseAPIError"
        /\ Len(tasks[i].token_list) > 0
        /\ tasks[i].ret.tokens = <<>>
        /\ pb.state = "gathering"

IsNotFound(o) == o.kind = "response" /\ o.status = NOT_FOUND

\* C4: an attempt of HttpService.get that meets HTTP 404, be it the first or
\* a later one, is the last of the call: the call has returned None, no wait
\* followed it and no request was sent after it.
C4_NotFoundEndsTheCall ==
    \A k \in 1..Len(hget.outcomes) :
        IsNotFound(hget.outcomes[k]) =>
            /\ k = Len(hget.outcomes)
            /\ hget.state = "returned"
            /\ hget.ret = None
            /\ Len(hget.waits) = k - 1
            /\ hget.sent <= k

\* C4 witness: a 404 on the third attempt, after two transient failures.
C4_Witness ==
    /\ Len(hget.outcomes) = 3
    /\ IsNotFound(hget.outcomes[3])
    /\ hget.sent = 3
    /\ hget.state = "returned"

\* C5: the waits of a call are 1, 2, 4 in that order, one before each of the
\* attempts 2, 3 and 4; a call whose attempts all failed with something else
\* than a 404 made exactly 4 attempts and waited 1, 2, 4, with no wait after
\* the last one; a success on attempt k is the end of the call after k
\* attempts.
C5_FourAttemptsBackoff124 ==
    LET n == Len(hget.outcomes)
    IN /\ n <= 4
       /\ hget.sent <= n + 1
       /\ Len(hget.waits) <= 3
       /\ \A k \in 1..Len(hget.waits) : k <= 3 => hget.waits[k] = <<1, 2, 4>>[k]
       /\ hget.state \in {"backoff", "inflight"} => Len(hget.waits) = n
       /\ ( /\ hget.state = "returned"
            /\ \A k \in 1..n :
                  hget.outcomes[k] # Success /\ ~IsNotFound(hget.outcomes[k]) )
          => (n = 4 /\ hget.waits = <<1, 2, 4>>)
       /\ \A k \in 1..n :
             hget.outcomes[k] = Success =>
                 (k = n /\ hget.state = "returned" /\ Len(hget.waits) = k - 1)

\* C5 witness: four requests were sent and each one failed with HTTP 500.
C5_Witness ==
    /\ hget.state = "returned"
    /\ hget.sent = 4
    /\ Len(hget.outcomes) = 4
    /\ \A k \in 1..4 : hget.outcomes[k].status = 500
    /\ hget.waits = <<1, 2, 4>>

\* C6: with the session started, no step of HttpService.get raises; a call
\* that returned gave the JSON value of its last, successful attempt or None.
C6_GetNeverRaisesOnceStarted ==
    /\ [][ (session # "unset" /\ hget'.state = "raised")
              => hget.state = "raised" ]_vars
    /\ [](hget.state = "returned" =>
             \/ hget.ret = None
             \/ /\ hget.outcomes[Len(hget.outcomes)] = Success
                /\ hget.ret \in Responses(TOKEN, "0xA", 1, 1))

\* C6 witness: the four attempts ended with a body that is not JSON, a
\* timeout, a client error and an HTTP error, and the call returned None.
C6_Witness ==
    /\ hget.state = "returned"
    /\ hget.ret = None
    /\ Len(hget.outcomes) = 4
    /\ hget.outcomes[1].body = "invalid_json"
    /\ hget.outcomes[2].kind = "timeout"
    /\ hget.outcomes[3].kind = "client_error"
    /\ hget.outcomes[4].status = 500

\* C7: one _fetch_paginated call asks for at most MAX_PAGE = 100 pages; when
\* each of the 100 answers was a success envelope naming a next page, the
\* call has returned the items the pages carried.
C7_AtMost100Pages ==
    /\ Len(pfetch.requested) <= 100
    /\ pfetch.iter <= 100
    /\ ( /\ Len(pfetch.requested) = 100
         /\ pfetch.pc \notin {"inflight", "backoff", "delay"}
         /\ pfetch.res # None
         /\ ~pfetch.res.next_page.null )
       => /\ pfetch.pc = "returned"
          /\ pfetch.ret = pfetch.results
          /\ \A p \in (MaxVarPages + 1)..100 :
                GoodItem(pfetch.endpoint, pfetch.address, p) \in Range(pfetch.ret)

\* C7 witness: the call returned after page 100, whose answer named page 101.
C7_Witness ==
    /\ pfetch.pc = "returned"
    /\ pfetch.requested = [p \in 1..100 |-> p]
    /\ pfetch.res.next_page = [null |-> FALSE, page |-> 101]
    /\ Len(pfetch.ret) >= 100 - MaxVarPages

\* C8: process_batch called with more addresses than API_KEYS has keys raises
\* the configuration error (ValueError) with no coroutine created, so with no
\* request sent for the batch.
C8_TooManyAddressesRaisesFirst ==
    (pb.state # "idle" /\ Len(pb.addresses) > Len(API_KEYS)) =>
        /\ pb.state = "raised"
        /\ pb.error = "ValueError"
        /\ tasks = <<>>
        /\ InFlight = {}

\* C8 witness: three addresses, two keys.
C8_Witness ==
    /\ pb.state = "raised"
    /\ Len(pb.addresses) = 3
    /\ Len(API_KEYS) = 2

\* C9 as stated: no two requests in flight carry the same API key.
C9_NoSharedKeyInFlight ==
    \A i, j \in InFlight : i # j => tasks[i].pf.api_key # tasks[j].pf.api_key

KeysDistinct == \A i, j \in 1..Len(API_KEYS) : i # j => API_KEYS[i] # API_KEYS[j]

\* C9 amended: every request of the coroutine at position i carries
\* API_KEYS[i], a coroutine has at most one request in flight, and so, when
\* the keys of API_KEYS are pairwise different, no two requests in flight
\* carry the same key.
C9_NoSharedKeyWhenKeysDistinct ==
    /\ \A i \in 1..Len(tasks) :
          /\ tasks[i].api_key = API_KEYS[i]
          /\ tasks[i].pf.api_key = API_KEYS[i]
    /\ KeysDistinct =>
          \A i, j \in InFlight : i # j => tasks[i].pf.api_key # tasks[j].pf.api_key

\* C9 witness: two requests in flight at once, with different keys.
C9_Witness ==
    /\ KeysDistinct
    /\ InFlight = {1, 2}
    /\ tasks[1].pf.api_key # tasks[2].pf.api_key

\* C10: while a request of a batch is in flight, every address of the
\* batches before it has its finished record in final_results.
C10_BatchesOneAfterAnother ==
    InFlight # {} =>
        /\ Len(final_results) = (batch_no - 1) * Len(API_KEYS)
        /\ \A k \in 1..Len(final_results) :
              /\ final_results[k] # NoRecord
              /\ final_results[k].address = addresses[k]
        /\ \A i \in 1..Len(tasks) :
              tasks[i].address = addresses[(batch_no - 1) * Len(API_KEYS) + i]

\* C10 witness: a request of the second batch is in flight.
C10_Witness ==
    /\ InFlight # {}
    /\ batch_no = 2
    /\ Len(final_results) = 2

\* The insert_many call of the run threw.
InsertThrew == inserts # <<>> /\ inserts[1].end \notin {"pending", "inserted"}

\* C11: when the bulk write threw, main does not end with an uncaught
\* exception and, once it has ended, a backup file exists that holds the whole
\* array handed to insert_many, every record in order.
C11_BackupHoldsRunResultWhenInsertThrows ==
    InsertThrew =>
        /\ mpc # "crashed"
        /\ mpc = "done" =>
              /\ backup_file.exists
              /\ backup_file.complete
              /\ Len(backup_file.records) = Len(inserts[1].documents)
              /\ \A k \in 1..Len(inserts[1].documents) :
                    backup_file.records[k].address = inserts[1].documents[k].address

\* main has read the address file and found no address in it.
EmptyInput == mpc # "start" /\ addresses = <<>>

\* Nothing was fetched, nothing was handed to the store, nothing was backed up.
NothingDone ==
    /\ final_results = <<>>
    /\ batch_no = 0
    /\ tasks = <<>>
    /\ pb = IdleBatch
    /\ inserts = <<>>
    /\ backup_file = NoFile

\* C12 as stated: with an empty address file the result is empty, no request
\* is issued, no insert is attempted, no backup file is created, and a run
\* that has ended has logged the warning that there is nothing to insert.
C12_EmptyInputSkipsPersistenceWithWarning ==
    EmptyInput =>
        /\ NothingDone
        /\ mpc \in {"done", "returned", "crashed"} =>
              "No results to insert" \in Range(log)

\* C12 amended: the same, the warning being logged in the runs that get as
\* far as a storage client (a connection string that is set and accepted).
C12_EmptyInputSkipsPersistence ==
    EmptyInput =>
        /\ NothingDone
        /\ mpc # "inserting"
        /\ mpc \in {"closing", "done"} =>
              /\ mongo_client = "constructed"
              /\ log[1] = "No results to insert"
        /\ mpc \in {"returned", "crashed"} =>
              "No results to insert" \notin Range(log)

\* C12 witness: a run on an empty file that ended after the warning.
C12_Witness ==
    /\ EmptyInput
    /\ mpc = "done"
    /\ log = <<"No results to insert", "HTTP client closed">>

\* C13: once main has found the connection string absent, every batch has
\* been collected (one record per address, no coroutine left), main has
\* returned, no storage client was constructed, no insert was attempted and
\* no backup file was written; the error is what was logged.
C13_AbsentUriReturnsAfterCollection ==
    MONGO_URI = "" =>
        /\ mpc = "returned"
        /\ batch_no = Len(batch_addresses)
        /\ Len(final_results) = Len(addresses)
        /\ \A k \in 1..Len(final_results) : final_results[k].address = addresses[k]
        /\ pb = IdleBatch /\ tasks = <<>>
        /\ mongo_client = "none"
        /\ inserts = <<>>
        /\ backup_file = NoFile
        /\ log = <<"MONGO_URI is not set">>

\* C13 witness: two batches collected, then the return of line 114.
C13_Witness ==
    /\ MONGO_URI = ""
    /\ mpc = "returned"
    /\ batch_no = 2
    /\ Len(final_results) = 3

\* C14: the session is open whenever a coroutine of a batch exists, so
\* before the first fetch is issued, and it is closed once main has ended,
\* by line 145 or by the return of line 114.
C14_SessionStartedThenClosed ==
    /\ (mpc # "start" /\ mpc \notin {"done", "returned"}) => session = "open"
    /\ tasks # <<>> => session = "open"
    /\ mpc \in {"done", "returned"} => session = "closed"

\* C15: a get called while the session has not been started ends at once
\* with RuntimeError: no request was sent, the loop was not entered (no
\* attempt, no outcome, no wait), nothing was returned.
C15_GetBeforeStartRaises ==
    /\ [][ (session = "unset" /\ hget' # hget)
              => /\ hget'.state = "raised"
                 /\ hget'.error = "RuntimeError" ]_vars
    /\ [](hget.error = "RuntimeError" =>
             /\ hget.state = "raised"
             /\ hget.sent = 0
             /\ hget.attempt = 0
             /\ hget.outcomes = <<>>
             /\ hget.waits = <<>>
             /\ hget.ret = None)

\* C15 witness: a get on the unstarted service has raised.
C15_Witness ==
    /\ session = "unset"
    /\ hget.state = "raised"
    /\ hget.error = "RuntimeError"

\* The concatenation of a list of lists.
RECURSIVE Concat(_)
Concat(lists) ==
    IF lists = <<>> THEN <<>> ELSE Head(lists) \o Concat(Tail(lists))

\* C16: the slices main makes are consecutive and non-empty, their
\* concatenation is the address list, each but the last has as many addresses
\* as there are credentials and none has more; process_batch called from main
\* never raises the credential-exhaustion error.
C16_SlicesPartitionTheAddresses ==
    /\ mpc # "start" =>
          /\ Concat(batch_addresses) = addresses
          /\ \A k \in 1..Len(batch_addresses) :
                /\ Len(batch_addresses[k]) >= 1
                /\ Len(batch_addresses[k]) <= Len(API_KEYS)
                /\ k < Len(batch_addresses) =>
                      Len(batch_addresses[k]) = Len(API_KEYS)
    /\ pb.state # "raised"
    /\ pb.error = ""
    /\ mpc = "crashed" => mongo_client = "raised"

\* C16 witness: three addresses and two credentials, a full slice and a
\* shorter last one, both processed.
C16_Witness ==
    /\ Len(API_KEYS) = 2
    /\ Len(addresses) = 3
    /\ Len(batch_addresses) = 2
    /\ Len(batch_addresses[2]) = 1
    /\ mpc = "collected"

\* A value the paginator rejects: JSON that is not an object, or an envelope
\* whose code is not 0.
ErrorPage(res) ==
    \/ res.type = "list"
    \/ res.type = "dict" /\ res.valid /\ res.code # 0

\* fetch_data in its first and in its second sub-fetch, a token already kept.
EnrichmentStages ==
    { NewTask(KeyNames[1], "0xA"),
      [NewTask(KeyNames[1], "0xA") EXCEPT
          !.sub = "transactions",
          !.token_list = <<GoodItem(TOKEN, "0xA", 1).contract_address>>] }

\* C17: when the answer to a page, the first or a later one, is not a JSON
\* object or is an envelope with a code other than 0, the paginated fetch
\* raises ChainbaseAPIError: it asks for no further page and returns nothing
\* of what the earlier pages gave, and fetch_data awaiting it returns the
\* degraded record.
C17_ProviderErrorAbortsFetch ==
    /\ [][ (pfetch.pc = "delay" /\ ErrorPage(pfetch.res))
              => /\ pfetch'.pc = "raised"
                 /\ pfetch'.error = "ChainbaseAPIError"
                 /\ pfetch'.requested = pfetch.requested
                 /\ pfetch'.ret = <<>> ]_vars
    /\ []((pfetch.pc = "raised" /\ pfetch.error = "ChainbaseAPIError") =>
             /\ ErrorPage(pfetch.res)
             /\ pfetch.ret = <<>>
             /\ pfetch.requested = [p \in 1..pfetch.page |-> p]
             /\ \A t \in EnrichmentStages :
                   LET u == FetchDataStep(t, pfetch, session)
                   IN /\ u.sub = "done"
                      /\ u.error = "ChainbaseAPIError"
                      /\ u.ret = [address |-> "0xA", tokens |-> <<>>,
                                  transactions |-> <<>>])

\* C17 witness: page 1 gave an item, the answer to page 2 was an error
\* envelope, and the fetch raised.
C17_Witness ==
    /\ pfetch.pc = "raised"
    /\ pfetch.error = "ChainbaseAPIError"
    /\ pfetch.res = ErrorEnvelope
    /\ pfetch.page = 2
    /\ Len(pfetch.results) = 1

\* C18: when http_client.get gave None for a page, the first or a later one,
\* the paginated fetch returns the empty list without an error and without
\* asking for another page, whatever the earlier pages had contributed.
C18_AbsentPageReturnsEmpty ==
    /\ [][ (pfetch.pc = "delay" /\ pfetch.res = None)
              => /\ pfetch'.pc = "returned"
                 /\ pfetch'.ret = <<>>
                 /\ pfetch'.error = ""
                 /\ pfetch'.requested = pfetch.requested ]_vars
    /\ []((pfetch.pc \in {"returned", "raised"} /\ pfetch.res = None
              /\ pfetch.requested # <<>> /\ pfetch.error # "RuntimeError") =>
             /\ pfetch.pc = "returned"
             /\ pfetch.ret = <<>>
             /\ pfetch.requested = [p \in 1..pfetch.page |-> p])

\* C18 witness: page 1 gave an item and named page 2, the answer to page 2
\* was absent, and the fetch returned the empty list.
C18_Witness ==
    /\ pfetch.pc = "returned"
    /\ pfetch.res = None
    /\ pfetch.page = 2
    /\ Len(pfetch.results) = 1
    /\ pfetch.ret = <<>>

\* A success envelope, and the items it carries ("data" or []).
SuccessEnvelope(res) == res.type = "dict" /\ res.valid /\ res.code = 0
DataOf(res) == IF res.data.null THEN <<>> ELSE res.data.items

\* C19: in a paginated fetch whose answers so far are all success envelopes,
\* the pages asked for are 1, 2, 3, ... with no gap and no repeat; a page was
\* asked for only after every page before it had named a next page; the page
\* whose next_page is null is the last one and the fetch returns after it;
\* what is returned is the concatenation of the pages' data in page order.
C19_PagesInOrderAndConcatenated ==
    LET f == pfetch
        n == Len(f.answers)
    IN (\A k \in 1..n : SuccessEnvelope(f.answers[k])) =>
          /\ f.requested = [p \in 1..Len(f.requested) |-> p]
          /\ Len(f.requested) \in {n, n + 1}
          /\ \A k \in 1..n :
                /\ k < Len(f.requested) => ~f.answers[k].next_page.null
                /\ f.answers[k].next_page.null =>
                      (k = n /\ f.pc \in {"delay", "returned"})
          /\ f.pc \notin {"raised"} \/ n = 0
          /\ f.pc = "returned" =>
                /\ n >= 1
                /\ f.answers[n].next_page.null \/ n = MAX_PAGE
                /\ f.ret = Concat([k \in 1..n |-> DataOf(f.answers[k])])

\* C19 witness: three pages, the second with null data, the third the last.
C19_Witness ==
    /\ pfetch.pc = "returned"
    /\ Len(pfetch.answers) = 3
    /\ pfetch.requested = <<1, 2, 3>>
    /\ \A k \in 1..3 : SuccessEnvelope(pfetch.answers[k])
    /\ pfetch.answers[2].data.null
    /\ Len(pfetch.ret) = 2

\* C20: a run calls insert_many at most once, so never again after a call
\* that failed; when it calls it every batch has been collected, no
\* enrichment is left running, and the documents handed over are the whole
\* of final_results: one record per address of the input, in order.
C20_OneInsertOfTheWholeResult ==
    /\ [](Len(inserts) <= 1)
    /\ [][ inserts' # inserts =>
              \/ /\ inserts = <<>>
                 /\ mpc = "collected"
                 /\ inserts'[1].documents = final_results
                 /\ inserts'[1].end = "pending"
              \/ /\ Len(inserts') = 1
                 /\ inserts[1].end = "pending"
                 /\ inserts'[1].documents = inserts[1].documents ]_vars
    /\ [](inserts # <<>> =>
             /\ batch_no = Len(batch_addresses)
             /\ pb = IdleBatch /\ tasks = <<>>
             /\ Len(inserts[1].documents) = Len(addresses)
             /\ \A k \in 1..Len(addresses) :
                   inserts[1].documents[k].address = addresses[k]
             /\ mpc \in {"inserting", "closing", "done"})

\* C20 witness: the insert of three records failed, the run ended, and the
\* one call is all there was.
C20_Witness ==
    /\ mpc = "done"
    /\ InsertThrew
    /\ Len(inserts) = 1
    /\ Len(inserts[1].documents) = 3
    /\ batch_no = 2

\* C21: whatever the order of the start, close and get calls on the one
\* HttpService, at most one session is ever constructed; start() on a service
\* that has a session, open or closed, leaves it as it is and constructs
\* nothing; close() never brings the service back to having no session; a
\* get() called on the closed session does not raise NotStarted
\* (RuntimeError) but enters the loop, where its first attempt fails on the
\* closed session before anything is sent.
C21_OneSessionNeverRecreated ==
    /\ [](sessions_created <= 1)
    /\ [](sessions_created = IF session = "unset" THEN 0 ELSE 1)
    /\ [][ session # "unset" =>
              /\ session' # "unset"
              /\ sessions_created' = sessions_created
              /\ session = "closed" => session' = "closed" ]_vars
    /\ [][ (session = "closed" /\ hget' # hget
               /\ hget.state \in {"idle", "returned", "raised"}) =>
              /\ hget'.state = "backoff"
              /\ hget'.error = ""
              /\ hget'.outcomes = <<SessionClosed>>
              /\ hget'.sent = 0 ]_vars

\* C21 witness: the one session was closed and a get called afterwards went
\* through its four attempts on the closed session and returned None.
C21_Witness ==
    /\ session = "closed"
    /\ sessions_created = 1
    /\ hget.state = "returned"
    /\ hget.ret = None
    /\ hget.sent = 0
    /\ hget.outcomes = <<SessionClosed, SessionClosed, SessionClosed, SessionClosed>>

====
